---- MODULE Spec2Model ----
(***************************************************************************)
(* A model of the Mouser parts search engine (mouser_search_engine.py) and *)
(* of the Flask routes that expose it (app.py).                            *)
(*                                                                         *)
(* Python strings are sequences of one-character strings, so that          *)
(* str.strip, str.lower, str.title, the `in` substring test and the        *)
(* fuzzywuzzy scores are computed, not assumed.                            *)
(***************************************************************************)
EXTENDS Integers, Sequences, FiniteSets, TLC

(***************************************************************************)
(* Python str operations                                                   *)
(***************************************************************************)
UpperChars == <<"A","B","C","D","E","F","G","H","I","J","K","L","M",
                "N","O","P","Q","R","S","T","U","V","W","X","Y","Z">>

LowerChars == <<"a","b","c","d","e","f","g","h","i","j","k","l","m",
                "n","o","p","q","r","s","t","u","v","w","x","y","z">>

\* the characters str.strip() removes, as far as a request can hold them in
\* the character set of this model (ASCII): space, \t, \n, \r, \f, and the
\* control characters 0x0B, 0x1C, 0x1D, 0x1E, 0x1F
Whitespace == {" ", "\t", "\n", "\r", "\f", "", "", "", "", ""}

\* the lower-case and the upper-case form of every letter
ToLower == [c \in {UpperChars[i] : i \in DOMAIN UpperChars} |->
              LowerChars[CHOOSE i \in DOMAIN UpperChars : UpperChars[i] = c]]

ToUpper == [c \in {LowerChars[i] : i \in DOMAIN LowerChars} |->
              UpperChars[CHOOSE i \in DOMAIN LowerChars : LowerChars[i] = c]]

IsUpper(c) == c \in DOMAIN ToLower

IsLower(c) == c \in DOMAIN ToUpper

lower_char(c) == IF IsUpper(c) THEN ToLower[c] ELSE c

upper_char(c) == IF IsLower(c) THEN ToUpper[c] ELSE c

\* str.lower()
lower(s) == [k \in 1..Len(s) |-> lower_char(s[k])]

\* str.title(): a letter that follows a non-letter is upper-cased, any other
\* letter is lower-cased.
title(s) ==
    [k \in 1..Len(s) |->
        IF k = 1 \/ ~(IsUpper(s[k-1]) \/ IsLower(s[k-1]))
        THEN upper_char(s[k])
        ELSE lower_char(s[k])]

SetMax(S) == CHOOSE x \in S : \A y \in S : y <= x

SetMin(S) == CHOOSE x \in S : \A y \in S : x <= y

\* str.strip(): leading and trailing whitespace removed.
strip(s) ==
    LET keep == {k \in 1..Len(s) : s[k] \notin Whitespace}
    IN  IF keep = {} THEN <<>>
        ELSE SubSeq(s, SetMin(keep), SetMax(keep))

\* sub in s
Contains(sub, s) ==
    \E i \in 0..(Len(s) - Len(sub)) : SubSeq(s, i + 1, i + Len(sub)) = sub

\* f"{a} {b}"
JoinSp(a, b) == a \o <<" ">> \o b

(***************************************************************************)
(* fuzzywuzzy.fuzz over difflib.SequenceMatcher (no junk; autojunk only    *)
(* applies to sequences of 200 elements or more).  Indices are Python's:   *)
(* 0-based, half-open ranges.                                              *)
(***************************************************************************)
RECURSIVE CommonLen(_, _, _, _, _, _)
\* the length of the longest common run of a[i:ahi] and b[j:bhi] starting at
\* i and j
CommonLen(a, b, i, j, ahi, bhi) ==
    IF i < ahi /\ j < bhi /\ a[i + 1] = b[j + 1]
    THEN 1 + CommonLen(a, b, i + 1, j + 1, ahi, bhi)
    ELSE 0

\* <<i, j, k>> for every i, j of the ranges with a[i] = b[j]: k is the length
\* of the common run that starts there
common_runs(a, b, alo, ahi, blo, bhi) ==
    {<<p[1], p[2], CommonLen(a, b, p[1], p[2], ahi, bhi)>> :
        p \in {q \in (alo..(ahi - 1)) \X (blo..(bhi - 1)) : a[q[1] + 1] = b[q[2] + 1]}}

\* the longest run; of those the one starting earliest in a, and of those the
\* one starting earliest in b
longest_first(runs, alo, blo) ==
    IF runs = {} THEN <<alo, blo, 0>>
    ELSE CHOOSE t \in runs : \A u \in runs :
            \/ t[3] > u[3]
            \/ t[3] = u[3] /\ t[1] < u[1]
            \/ t[3] = u[3] /\ t[1] = u[1] /\ t[2] <= u[2]

\* SequenceMatcher.find_longest_match: <<i, j, k>> with a[i:i+k] = b[j:j+k]
find_longest_match(a, b, alo, ahi, blo, bhi) ==
    longest_first(common_runs(a, b, alo, ahi, blo, bhi), alo, blo)

RECURSIVE matching_blocks(_, _, _, _, _, _)
RECURSIVE blocks_around(_, _, _, _, _, _, _)
\* SequenceMatcher.get_matching_blocks without the final merge of adjacent
\* blocks and without the (la, lb, 0) sentinel: the blocks in increasing order.
matching_blocks(a, b, alo, ahi, blo, bhi) ==
    blocks_around(a, b, alo, ahi, blo, bhi,
                  find_longest_match(a, b, alo, ahi, blo, bhi))

\* the blocks to the left of the longest match m, m itself, those to its right
blocks_around(a, b, alo, ahi, blo, bhi, m) ==
    IF m[3] = 0 THEN <<>>
    ELSE (IF alo < m[1] /\ blo < m[2]
          THEN matching_blocks(a, b, alo, m[1], blo, m[2]) ELSE <<>>)
         \o <<m>> \o
         (IF m[1] + m[3] < ahi /\ m[2] + m[3] < bhi
          THEN matching_blocks(a, b, m[1] + m[3], ahi, m[2] + m[3], bhi) ELSE <<>>)

get_matching_blocks(a, b) ==
    matching_blocks(a, b, 0, Len(a), 0, Len(b)) \o <<(<<Len(a), Len(b), 0>>)>>

RECURSIVE SumSizes(_)
SumSizes(blocks) ==
    IF blocks = <<>> THEN 0 ELSE Head(blocks)[3] + SumSizes(Tail(blocks))

\* utils.intr(100 * (2.0 * matches / length)) in double arithmetic.  The
\* quotient 2.0 * matches / length is correctly rounded, so the result is a
\* function of the fraction matches / length.  When 200 * matches / length
\* is not half an integer the double is within 1e-13 of it and rounds as it
\* does; of the hundred fractions (2k + 1) / 400 at which it is, the product
\* is the exact half, which Python 3 round() takes to the even neighbour,
\* except at 115/400, where it is 57.49999999999999, and at 109/400, where
\* it is 54.50000000000001.
intr_ratio(matches, length) ==
    IF length = 0 THEN 100
    ELSE IF 400 * matches = 115 * length THEN 57
    ELSE IF 400 * matches = 109 * length THEN 55
    ELSE LET q == (200 * matches) \div length
             r == (200 * matches) % length
         IN  IF 2 * r > length THEN q + 1
             ELSE IF 2 * r < length THEN q
             ELSE IF q % 2 = 0 THEN q ELSE q + 1

\* utils.intr(100 * SequenceMatcher(None, a, b).ratio())
seq_ratio(a, b) == intr_ratio(SumSizes(get_matching_blocks(a, b)), Len(a) + Len(b))

\* fuzz.ratio with its decorators (check_for_equivalence, check_empty_string)
fuzz_ratio(s1, s2) ==
    IF s1 = s2 THEN 100
    ELSE IF Len(s1) = 0 \/ Len(s2) = 0 THEN 0
    ELSE seq_ratio(s1, s2)

\* long_start = max(block[1] - block[0], 0) of every matching block
window_starts(blocks) ==
    {IF blocks[n][2] - blocks[n][1] > 0
     THEN blocks[n][2] - blocks[n][1] ELSE 0 : n \in DOMAIN blocks}

\* longer[long_start:long_start + len(shorter)]
window(shorter, longer, long_start) ==
    SubSeq(longer, long_start + 1,
           IF long_start + Len(shorter) < Len(longer)
           THEN long_start + Len(shorter) ELSE Len(longer))

\* max(scores) over the windows
best_window_ratio(shorter, longer, starts) ==
    SetMax({seq_ratio(shorter, window(shorter, longer, st)) : st \in starts})

\* fuzz.partial_ratio: the shorter string against the window of the longer
\* one that each matching block aligns it with; the best window's ratio.
fuzz_partial_ratio(s1, s2) ==
    IF s1 = s2 THEN 100
    ELSE IF Len(s1) = 0 \/ Len(s2) = 0 THEN 0
    ELSE
    LET shorter == IF Len(s1) <= Len(s2) THEN s1 ELSE s2
        longer == IF Len(s1) <= Len(s2) THEN s2 ELSE s1
    IN  best_window_ratio(shorter, longer,
                          window_starts(get_matching_blocks(shorter, longer)))

(***************************************************************************)
(* String literals of the program                                          *)
(***************************************************************************)
\* 'A000066'
s_A000066 ==
    <<"A","0","0","0","0","6","6">>

\* 'Arduino'
s_Arduino ==
    <<"A","r","d","u","i","n","o">>

\* 'Arduino Uno R3 Microcontroller Board'
s_ArduinoUnoBoard ==
    <<"A","r","d","u","i","n","o"," ","U","n","o"," ","R","3"," ","M",
    "i","c","r","o","c","o","n","t","r","o","l","l","e","r"," ","B",
    "o","a","r","d">>

\* 'Development Boards'
s_DevelopmentBoards ==
    <<"D","e","v","e","l","o","p","m","e","n","t"," ","B","o","a","r",
    "d","s">>

\* 'LM358N'
s_LM358N ==
    <<"L","M","3","5","8","N">>

\* 'Texas Instruments'
s_TexasInstruments ==
    <<"T","e","x","a","s"," ","I","n","s","t","r","u","m","e","n","t",
    "s">>

\* 'LM358 Dual Operational Amplifier'
s_LM358Amplifier ==
    <<"L","M","3","5","8"," ","D","u","a","l"," ","O","p","e","r","a",
    "t","i","o","n","a","l"," ","A","m","p","l","i","f","i","e","r">>

\* 'Amplifiers'
s_Amplifiers ==
    <<"A","m","p","l","i","f","i","e","r","s">>

\* 'CF14JT10K0'
s_CF14JT10K0 ==
    <<"C","F","1","4","J","T","1","0","K","0">>

\* 'Stackpole Electronics'
s_StackpoleElectronics ==
    <<"S","t","a","c","k","p","o","l","e"," ","E","l","e","c","t","r",
    "o","n","i","c","s">>

\* '10k Ohm Resistor 1/4W 5%'
s_10kOhmResistor ==
    <<"1","0","k"," ","O","h","m"," ","R","e","s","i","s","t","o","r",
    " ","1","/","4","W"," ","5","%">>

\* 'Resistors'
s_Resistors ==
    <<"R","e","s","i","s","t","o","r","s">>

\* 'ESP32-WROOM-32'
s_ESP32WROOM32 ==
    <<"E","S","P","3","2","-","W","R","O","O","M","-","3","2">>

\* 'Espressif'
s_Espressif ==
    <<"E","s","p","r","e","s","s","i","f">>

\* 'ESP32 WiFi & Bluetooth Module'
s_ESP32Module ==
    <<"E","S","P","3","2"," ","W","i","F","i"," ","&"," ","B","l","u",
    "e","t","o","o","t","h"," ","M","o","d","u","l","e">>

\* 'Wireless Modules'
s_WirelessModules ==
    <<"W","i","r","e","l","e","s","s"," ","M","o","d","u","l","e",
    "s">>

\* '2N3904'
s_2N3904 ==
    <<"2","N","3","9","0","4">>

\* 'ON Semiconductor'
s_ONSemiconductor ==
    <<"O","N"," ","S","e","m","i","c","o","n","d","u","c","t","o",
    "r">>

\* 'NPN General Purpose Transistor'
s_NPNTransistor ==
    <<"N","P","N"," ","G","e","n","e","r","a","l"," ","P","u","r","p",
    "o","s","e"," ","T","r","a","n","s","i","s","t","o","r">>

\* 'Transistors'
s_Transistors ==
    <<"T","r","a","n","s","i","s","t","o","r","s">>

\* 'Capacitors'
s_Capacitors ==
    <<"C","a","p","a","c","i","t","o","r","s">>

\* 'Integrated Circuits'
s_IntegratedCircuits ==
    <<"I","n","t","e","g","r","a","t","e","d"," ","C","i","r","c","u",
    "i","t","s">>

\* 'resistor'
s_resistor ==
    <<"r","e","s","i","s","t","o","r">>

\* 'capacitor'
s_capacitor ==
    <<"c","a","p","a","c","i","t","o","r">>

\* 'transistor'
s_transistor ==
    <<"t","r","a","n","s","i","s","t","o","r">>

\* 'ic'
s_ic ==
    <<"i","c">>

\* 'integrated circuit'
s_integrated_circuit ==
    <<"i","n","t","e","g","r","a","t","e","d"," ","c","i","r","c","u",
    "i","t">>

\* 'ti'
s_ti ==
    <<"t","i">>

\* 'texas instruments'
s_texas_instruments ==
    <<"t","e","x","a","s"," ","i","n","s","t","r","u","m","e","n","t",
    "s">>

\* 'analog devices'
s_analog_devices ==
    <<"a","n","a","l","o","g"," ","d","e","v","i","c","e","s">>

\* 'maxim'
s_maxim ==
    <<"m","a","x","i","m">>

\* 'linear'
s_linear ==
    <<"l","i","n","e","a","r">>

\* 'stmicroelectronics'
s_stmicroelectronics ==
    <<"s","t","m","i","c","r","o","e","l","e","c","t","r","o","n","i",
    "c","s">>

\* 'infineon'
s_infineon ==
    <<"i","n","f","i","n","e","o","n">>

\* 'nxp'
s_nxp ==
    <<"n","x","p">>

(***************************************************************************)
(* ElectronicPart.  The optional fields (price, stock, datasheet_url,      *)
(* image_url, specifications) are carried through unread by every          *)
(* operation below and are left out of the record.                         *)
(***************************************************************************)
ElectronicPart(pn, mf, desc, cat) ==
    [part_number |-> pn, manufacturer |-> mf, description |-> desc,
     category |-> cat]

\* the sample data of MouserAPIClient._fallback_search
sample_parts ==
    << ElectronicPart(s_A000066, s_Arduino, s_ArduinoUnoBoard, s_DevelopmentBoards),
       ElectronicPart(s_LM358N, s_TexasInstruments, s_LM358Amplifier, s_Amplifiers),
       ElectronicPart(s_CF14JT10K0, s_StackpoleElectronics, s_10kOhmResistor, s_Resistors),
       ElectronicPart(s_ESP32WROOM32, s_Espressif, s_ESP32Module, s_WirelessModules),
       ElectronicPart(s_2N3904, s_ONSemiconductor, s_NPNTransistor, s_Transistors) >>

\* the trigger -> label branches of _extract_favorite_categories, in the
\* order of the if/elif chain; a branch holds the triggers joined by `or`
category_vocabulary ==
    << [triggers |-> {s_resistor}, label |-> s_Resistors],
       [triggers |-> {s_capacitor}, label |-> s_Capacitors],
       [triggers |-> {s_transistor}, label |-> s_Transistors],
       [triggers |-> {s_ic, s_integrated_circuit}, label |-> s_IntegratedCircuits] >>

\* common_manufacturers of _extract_preferred_manufacturers
common_manufacturers ==
    << s_ti, s_texas_instruments, s_analog_devices, s_maxim, s_linear,
       s_stmicroelectronics, s_infineon, s_nxp >>

\* default of MouserAPIClient.search_parts(search_term, limit=20)
DefaultLimit == 20

\* default of IntelligentSearchEngine.search(..., fuzzy_threshold=80)
DefaultFuzzyThreshold == 80

\* `if similarity > 60` of get_similar_parts
SimilarityThreshold == 60

\* default of get_similar_parts(part_number, limit=5)
DefaultSimilarLimit == 5

\* recommendations[:5] of generate_recommendations
MaxAIRecommendations == 5

\* recommendations[:3] of _fallback_recommendations
MaxFallbackRecommendations == 3

\* profile["favorite_categories"][:3]
MaxCategoryLines == 3

\* profile["preferred_manufacturers"][:2]
MaxManufacturerLines == 2

\* recommendations[:5] of get_personalized_recommendations
MaxPersonalized == 5

\* most_common(5)
MostCommonN == 5

(***************************************************************************)
(* List helpers                                                            *)
(***************************************************************************)
\* s[:n]
Take(s, n) == SubSeq(s, 1, IF n < Len(s) THEN n ELSE Len(s))

RECURSIVE InsertDesc_before_equal(_, _)
\* a variant of InsertDesc: x goes in front of the elements whose key equals
\* its own, which reverses the order of equal keys
InsertDesc_before_equal(sorted, x) ==
    IF sorted = <<>> THEN <<x>>
    ELSE IF Head(sorted)[2] > x[2]
         THEN <<Head(sorted)>> \o InsertDesc_before_equal(Tail(sorted), x)
         ELSE <<x>> \o sorted

RECURSIVE InsertDesc(_, _)
\* sorted is a list of <<item, key>> in non-increasing key order; x goes after
\* every element whose key is >= its own
InsertDesc(sorted, x) ==
    IF sorted = <<>> THEN <<x>>
    ELSE IF Head(sorted)[2] >= x[2]
         THEN <<Head(sorted)>> \o InsertDesc(Tail(sorted), x)
         ELSE <<x>> \o sorted

RECURSIVE SortDescStable(_)
\* list.sort(key=lambda x: x[1], reverse=True): non-increasing key, elements
\* of equal key in their original order
SortDescStable(pairs) ==
    IF pairs = <<>> THEN <<>>
    ELSE InsertDesc(SortDescStable(SubSeq(pairs, 1, Len(pairs) - 1)),
                    pairs[Len(pairs)])

\* the number of occurrences of x in s
Count(s, x) == Cardinality({k \in DOMAIN s : s[k] = x})

RECURSIVE Select(_, _)
\* [s[k] for k in range(len(s)) if k in keep]
Select(s, keep) ==
    IF s = <<>> THEN <<>>
    ELSE Select(SubSeq(s, 1, Len(s) - 1), keep)
         \o (IF Len(s) \in keep THEN << s[Len(s)] >> ELSE <<>>)

\* [x.field for x in s]
Field(s, field) == [k \in DOMAIN s |-> s[k][field]]

\* [x[0] for x in pairs]
Firsts(pairs) == [k \in DOMAIN pairs |-> pairs[k][1]]

RECURSIVE split(_, _)
\* str.split(sep) for a one-character separator
split(s, sep) ==
    LET at == {k \in DOMAIN s : s[k] = sep}
    IN  IF at = {} THEN <<s>>
        ELSE LET k == SetMin(at)
             IN  <<SubSeq(s, 1, k - 1)>> \o split(SubSeq(s, k + 1, Len(s)), sep)

(***************************************************************************)
(* The collaborators: what the HTTP service and the generative model       *)
(* answer.  Each is a deterministic stub selected by a mode.               *)
(***************************************************************************)
\* f"{part.part_number} {part.manufacturer} {part.description} {part.category}"
searchable_text(part) ==
    JoinSp(JoinSp(JoinSp(part.part_number, part.manufacturer), part.description),
           part.category)

\* the catalogue held by the Mouser service stub
mouser_catalog ==
    << ElectronicPart(<<"A","1">>, <<"A","c","m","e">>,
                      <<"1","0","k"," ","r","e","s","i","s","t","o","r">>, s_Resistors),
       ElectronicPart(<<"A","2">>, <<"A","c","m","e">>,
                      <<"1","k"," ","r","e","s","i","s","t","o","r">>, s_Resistors),
       ElectronicPart(<<"T","9">>, s_TexasInstruments,
                      <<"L","M","3","5","8"," ","d","u","a","l"," ","o","p"," ","a","m","p">>,
                      s_Amplifiers) >>

\* another content of the catalogue: two part numbers of which one is the
\* beginning of the other, the longer one listed first, and a part in each
\* category of the vocabulary
mouser_catalog_prefixed ==
    << ElectronicPart(<<"A","1","0">>, <<"A","c","m","e">>,
                      <<"1","0","k"," ","r","e","s","i","s","t","o","r"," ","1","%">>,
                      s_Resistors),
       ElectronicPart(<<"A","1">>, <<"A","c","m","e">>,
                      <<"1","0","k"," ","r","e","s","i","s","t","o","r">>, s_Resistors),
       ElectronicPart(<<"A","3">>, <<"A","c","m","e">>,
                      <<"1","0","k"," ","r","e","s","i","s","t","o","r"," ","5","%">>,
                      s_Resistors),
       ElectronicPart(<<"A","4">>, <<"A","c","m","e">>,
                      <<"1","0","k"," ","r","e","s","i","s","t","o","r"," ","2","%">>,
                      s_Resistors),
       ElectronicPart(<<"A","5">>, <<"A","c","m","e">>,
                      <<"2","2","0"," ","o","h","m">>, s_Resistors),
       ElectronicPart(<<"C","1">>, <<"M","a","x","i","m">>,
                      <<"1","0","0","n","F">>, s_Capacitors),
       ElectronicPart(<<"Q","1">>, <<"N","X","P">>,
                      <<"N","P","N">>, s_Transistors),
       ElectronicPart(<<"U","1">>, <<"T","I">>,
                      <<"o","p"," ","a","m","p">>, s_IntegratedCircuits) >>

\* "error" is any of the failures search_parts handles, all by returning
\* _fallback_search: status 404, a response without SearchResults.Parts,
\* a RequestException (raise_for_status included), any other exception
ApiModes == {"ok", "error"}

\* "prefixed": the service answers from mouser_catalog_prefixed
PartsApiModes == ApiModes \cup {"prefixed"}

\* the catalogue the service answers from
service_catalog(api) ==
    IF api = "prefixed" THEN mouser_catalog_prefixed ELSE mouser_catalog

EnhancerModes == {"text", "empty", "raise"}

GeneratorModes == {"text", "empty", "raise"}

\* the service's keyword test: every word of the keyword occurs in the entry
keyword_matches(words, part) ==
    \A k \in DOMAIN words : Contains(words[k], lower(searchable_text(part)))

\* the entries of a catalogue that match the keyword, at most `records`
catalog_matches(catalog, words, records) ==
    Take(Select(catalog,
                {k \in DOMAIN catalog : keyword_matches(words, catalog[k])}),
         records)

\* the Parts of a 200 response to {"keyword": keyword, "records": records}
mouser_response_parts(api, keyword, records) ==
    catalog_matches(service_catalog(api), split(lower(keyword), " "), records)

\* response.text of the query-enhancement prompt (modes "text" and "empty")
enhancer_response_text(mode, user_query, context) ==
    IF mode = "text" THEN <<" ">> \o title(user_query) \o <<"\n">> ELSE <<>>

\* response.text of the recommendation prompt (modes "text" and "empty")
generator_response_text(mode) ==
    IF mode = "text"
    THEN <<"U","s","e"," ","1","%","\n","\n"," ","A","d","d"," ","\n",
           "c","\n","d","\n","e","\n","f","\n">>
    ELSE <<" ","\n">>

(***************************************************************************)
(* MouserAPIClient                                                         *)
(***************************************************************************)
\* the condition under which _fallback_search keeps a sample part
sample_matches(search_lower, part) ==
    \/ Contains(search_lower, lower(part.part_number))
    \/ Contains(search_lower, lower(part.manufacturer))
    \/ Contains(search_lower, lower(part.description))
    \/ Contains(search_lower, lower(part.category))

matching_samples(search_lower) ==
    Select(sample_parts,
           {k \in DOMAIN sample_parts : sample_matches(search_lower, sample_parts[k])})

\* `if not matching_parts: matching_parts = sample_parts[:min(limit, 5)]`,
\* then `return matching_parts[:limit]`
samples_or_default(matching_parts, limit) ==
    IF matching_parts = <<>>
    THEN Take(Take(sample_parts,
                   IF limit < Len(sample_parts) THEN limit ELSE Len(sample_parts)),
              limit)
    ELSE Take(matching_parts, limit)

fallback_search(search_term, limit) ==
    samples_or_default(matching_samples(lower(search_term)), limit)

client_search_parts(api, search_term, limit) ==
    IF api # "error"
    THEN mouser_response_parts(api, search_term, limit)
    ELSE fallback_search(search_term, limit)

(***************************************************************************)
(* GeminiAIAssistant                                                       *)
(***************************************************************************)
\* a variant of enhanced_or_original: the model's answer is used as it came,
\* empty or not
enhanced_as_returned(enhanced_query, user_query) == enhanced_query

\* `if enhanced_query and len(enhanced_query) > 0` ... `else: return user_query`
enhanced_or_original(enhanced_query, user_query) ==
    IF enhanced_query # <<>> /\ Len(enhanced_query) > 0
    THEN enhanced_query
    ELSE user_query

enhance_search_query(mode, user_query, context) ==
    IF mode = "raise" THEN user_query
    ELSE enhanced_or_original(strip(enhancer_response_text(mode, user_query, context)),
                              user_query)

\* one recommendation string: the template that produced it and the values
\* substituted into it
Line(kind, a, b, c) == [kind |-> kind, a |-> a, b |-> b, c |-> c]

\* the lines of the model's answer, each as a recommendation
MapLine(lines) == [k \in DOMAIN lines |-> Line("ai", strip(lines[k]), <<>>, <<>>)]

AppendNew(s, x) == IF Count(s, x) > 0 THEN s ELSE Append(s, x)

\* the labels in first-occurrence order, without repetitions
RECURSIVE Distinct(_)
Distinct(s) ==
    IF s = <<>> THEN <<>>
    ELSE AppendNew(Distinct(SubSeq(s, 1, Len(s) - 1)), s[Len(s)])

\* list(set(labels))[0].  Which label a set iterates first depends on the
\* hashes the process gives its strings and, where two of them meet in the
\* table, on the order they were added: within a process it is a function of
\* the labels in the order they were added, and from one process to the next
\* any label of the set can be the first, whatever is the first of another
\* set.  hash_seed stands for the string hashing of the process by what it
\* decides: the pairs <<d, i>> of a list d of labels and the position i in d
\* of the label that set(d) iterates first.  A list it has no pair for
\* iterates in the order it was added.
iteration_first(hash_seed, d) ==
    IF \E p \in hash_seed : p[1] = d
    THEN d[(CHOOSE p \in hash_seed : p[1] = d)[2]]
    ELSE d[1]

set_first(hash_seed, labels) == iteration_first(hash_seed, Distinct(labels))

\* a process whose sets all iterate in the order they were added
InsertionOrder == {}

\* a non-empty search_results has a manufacturer and a category, so both
\* `if manufacturers:` and `if categories:` are taken
fallback_recommendations(hash_seed, search_results, user_query) ==
    Take(IF search_results # <<>>
         THEN << Line("Consider other products from",
                      set_first(hash_seed, Field(search_results, "manufacturer")),
                      <<>>, <<>>),
                 Line("Explore more",
                      set_first(hash_seed, Field(search_results, "category")),
                      <<>>, <<>>),
                 Line("Check datasheets", <<>>, <<>>, <<>>),
                 Line("Consider bulk pricing", <<>>, <<>>, <<>>) >>
         ELSE <<>>,
         MaxFallbackRecommendations)

\* [rec.strip() for rec in lines if rec.strip()]
ai_lines(lines) ==
    MapLine(Select(lines, {k \in DOMAIN lines : strip(lines[k]) # <<>>}))

generate_recommendations(mode, hash_seed, search_results, user_query) ==
    IF search_results = <<>> THEN <<>>
    ELSE IF mode = "raise"
    THEN fallback_recommendations(hash_seed, search_results, user_query)
    ELSE IF strip(generator_response_text(mode)) # <<>>
    THEN Take(ai_lines(split(strip(generator_response_text(mode)), "\n")),
              MaxAIRecommendations)
    ELSE fallback_recommendations(hash_seed, search_results, user_query)

(***************************************************************************)
(* Bounds of the model and the inputs of the requests                      *)
(***************************************************************************)
\* Search requests are accepted until this many have been accepted
MaxSearches == 2

\* Recommendation requests of a user with a stored profile are accepted while
\* search_history holds fewer records than this
MaxHistory == 2


\* A recommendation request of a user with a stored profile is accepted while
\* fewer requests than this are in the loops of
\* get_personalized_recommendations
MaxLooping == 1

\* the longest candidate list given to the ranker on its own
MaxCandidates == 3

\* the string hashing of the processes that serve requests: no search of
\* theirs has results of two manufacturers or of two categories, so every
\* set of _fallback_recommendations has one label
HashSeeds == {InsertionOrder}

Users == {"anonymous", "u1"}

\* the user ids of the GET /recommendations requests; the searches, each of
\* which goes through get_personalized_recommendations too, are made with
\* every user id
RecommendationUsers == {"u1"}

\* request.get_json()['query']
RawQueries ==
    { <<>>,
      <<"\r","\n">>,
      <<" ","r","e","s","i","s","t","o","r","\r","\n">>,
      <<"T","I"," ","c","a","p","a","c","i","t","o","r">> }

\* request.get_json()['context']
Contexts == { <<>> }

\* the <part_number> of /part/<part_number> and /similar/<part_number>
PartNumbers ==
    { <<"A","1">>, <<"A","1","0">>, <<"T","9">>, s_LM358N, s_2N3904, <<"Z","Z">> }

\* the part numbers looked up between the searches of a session: one of a
\* catalogue record, one without a record
SessionPartNumbers == { <<"A","1">>, <<"Z","Z">> }

\* the limit of get_similar_parts when it is called directly
SimilarLimits == {1, 2, 3, 5}

\* the stub configurations
Envs ==
    { [api |-> a, enhancer |-> e, generator |-> g, hash_seed |-> h] :
        a \in ApiModes, e \in EnhancerModes, g \in GeneratorModes,
        h \in HashSeeds }

\* the stub configurations under which stored histories are turned into
\* profiles and recommendations
ProfileEnvs ==
    { [api |-> "prefixed", enhancer |-> e, generator |-> "raise", hash_seed |-> InsertionOrder] :
        e \in {"text"} }

\* the stub configurations of a session with part lookups
SessionEnvs ==
    { [api |-> a, enhancer |-> "text", generator |-> "text", hash_seed |-> InsertionOrder] :
        a \in ApiModes }

\* the user whose profile is derived from a stored history
ProfileUsers == {"u1"}

\* the stub configurations of the part routes, which use the service only
PartsEnvs ==
    { [api |-> a, enhancer |-> "text", generator |-> "text", hash_seed |-> InsertionOrder] :
        a \in PartsApiModes }

(***************************************************************************)
(* IntelligentSearchEngine.  An operation that changes search_history      *)
(* takes the list and returns the new one together with its result and     *)
(* the events of the call in program order:                                *)
(*   "append"   a record is appended to search_history      (term = query) *)
(*   "enhance"  GeminiAIAssistant.enhance_search_query      (term = query) *)
(*   "catalog"  MouserAPIClient.search_parts          (term = search term) *)
(*   "generate" the recommendation prompt is sent           (term = query) *)
(* cfg is the stub configuration [api, enhancer, generator, hash_seed].    *)
(***************************************************************************)
Event(ev, term, limit) == [ev |-> ev, term |-> term, limit |-> limit]

\* the record search() appends; now is what pd.Timestamp.now() returned while
\* the record was built, before the append
SearchRecord(now, query, user_context) ==
    [query |-> query, context |-> user_context, timestamp |-> now]

\* pd.Timestamp.now() read after every record of history was built: a later
\* reading of the clock is larger
now_after(history) ==
    IF history = <<>> THEN 1
    ELSE 1 + SetMax({history[k].timestamp : k \in DOMAIN history})

\* score = fuzz.partial_ratio(query.lower(), text.lower())
part_score(part, query) ==
    fuzz_partial_ratio(lower(query), lower(searchable_text(part)))

\* the (part, score) pairs of the loop, before the threshold is applied
scored_parts(results, query) ==
    [k \in DOMAIN results |-> <<results[k], part_score(results[k], query)>>]

\* a variant of at_least: a score equal to the threshold is dropped
at_least_strict(scored, threshold) ==
    Select(scored, {k \in DOMAIN scored : scored[k][2] > threshold})

\* `if score >= threshold`
at_least(scored, threshold) ==
    Select(scored, {k \in DOMAIN scored : scored[k][2] >= threshold})

apply_fuzzy_matching(results, query, threshold) ==
    IF results = <<>> THEN results
    ELSE Firsts(SortDescStable(at_least(scored_parts(results, query), threshold)))

\* a variant of search_result: total_found is the number of records the
\* catalog returned
search_result_raw_total(cfg, query, user_context, enhanced_query, filtered_results) ==
    [result |-> [original_query |-> query,
                 enhanced_query |-> enhanced_query,
                 results |-> filtered_results,
                 recommendations |->
                     generate_recommendations(cfg.generator, cfg.hash_seed,
                                              filtered_results, query),
                 total_found |->
                     Len(client_search_parts(cfg.api, enhanced_query, DefaultLimit)),
                 search_context |-> user_context],
     trace |-> << Event("enhance", query, 0),
                  Event("catalog", enhanced_query, DefaultLimit) >>
               \o (IF filtered_results # <<>>
                   THEN << Event("generate", query, 0) >> ELSE <<>>)]

\* the SearchResult of search() and the calls made for it, once the ranked
\* list is known
search_result(cfg, query, user_context, enhanced_query, filtered_results) ==
    [result |-> [original_query |-> query,
                 enhanced_query |-> enhanced_query,
                 results |-> filtered_results,
                 recommendations |->
                     generate_recommendations(cfg.generator, cfg.hash_seed,
                                              filtered_results, query),
                 total_found |-> Len(filtered_results),
                 search_context |-> user_context],
     trace |-> << Event("enhance", query, 0),
                  Event("catalog", enhanced_query, DefaultLimit) >>
               \o (IF filtered_results # <<>>
                   THEN << Event("generate", query, 0) >> ELSE <<>>)]

\* search() from the catalogue query on: raw_results, then the ranker
search_with(cfg, query, user_context, fuzzy_threshold, enhanced_query) ==
    search_result(cfg, query, user_context, enhanced_query,
                  apply_fuzzy_matching(
                      client_search_parts(cfg.api, enhanced_query, DefaultLimit),
                      query, fuzzy_threshold))

\* what search() computes and returns, and the calls it makes after the append
search_outcome(cfg, query, user_context, fuzzy_threshold) ==
    search_with(cfg, query, user_context, fuzzy_threshold,
                enhance_search_query(cfg.enhancer, query, user_context))

\* self.search_history.append({...}), of the record built at the reading now
appended(history, now, query, user_context) ==
    Append(history, SearchRecord(now, query, user_context))

\* the append in front of the rest of search(), when no other call of
\* search() runs between the reading of the clock and the append
with_append(history, query, user_context, o) ==
    [history |-> appended(history, now_after(history), query, user_context),
     result |-> o.result,
     trace |-> << Event("append", query, 0) >> \o o.trace]

\* the queries search() is called with: those of the requests, and the labels
\* get_personalized_recommendations searches for
KnownQueries ==
    {strip(raw) : raw \in RawQueries}
    \cup {category_vocabulary[k].label : k \in DOMAIN category_vocabulary}
    \cup {title(common_manufacturers[k]) : k \in DOMAIN common_manufacturers}

\* search_outcome for these queries under every stub configuration, with no
\* context and the default threshold, evaluated once
search_outcomes ==
    [e \in Envs \cup ProfileEnvs |-> [q \in KnownQueries |->
        search_outcome(e, q, <<>>, DefaultFuzzyThreshold)]]

engine_search(cfg, history, query, user_context, fuzzy_threshold) ==
    with_append(history, query, user_context,
                IF /\ cfg \in Envs \cup ProfileEnvs
                   /\ query \in KnownQueries
                   /\ user_context = <<>>
                   /\ fuzzy_threshold = DefaultFuzzyThreshold
                THEN search_outcomes[cfg][query]
                ELSE search_outcome(cfg, query, user_context, fuzzy_threshold))

\* the (part, similarity) pairs of the loop of get_similar_parts
scored_similar(reference_part, similar_results) ==
    [k \in DOMAIN similar_results |->
        <<similar_results[k],
          fuzz_ratio(reference_part.description, similar_results[k].description)>>]

\* a variant of similar_enough: the reference part is not taken out
similar_enough_with_reference(reference_part, scored) ==
    Select(scored, {k \in DOMAIN scored : scored[k][2] > SimilarityThreshold})

\* `if part.part_number != reference_part.part_number` and `if similarity > 60`
similar_enough(reference_part, scored) ==
    Select(scored, {k \in DOMAIN scored :
                       /\ scored[k][1].part_number # reference_part.part_number
                       /\ scored[k][2] > SimilarityThreshold})

\* a variant of similar_to: the list is cut to `limit` before it is sorted
similar_to_cut_first(cfg, part_number, limit, reference_part, similar_query) ==
    [result |->
        Firsts(SortDescStable(Take(
            similar_enough(reference_part,
                scored_similar(reference_part,
                    client_search_parts(cfg.api, similar_query, limit * 2))),
            limit))),
     trace |-> << Event("catalog", part_number, 1),
                  Event("catalog", similar_query, limit * 2) >>]

\* get_similar_parts once the reference part is found
similar_to(cfg, part_number, limit, reference_part, similar_query) ==
    [result |->
        Firsts(Take(SortDescStable(
            similar_enough(reference_part,
                scored_similar(reference_part,
                    client_search_parts(cfg.api, similar_query, limit * 2)))),
            limit)),
     trace |-> << Event("catalog", part_number, 1),
                  Event("catalog", similar_query, limit * 2) >>]

\* get_similar_parts after its first catalogue query
similar_from(cfg, part_number, limit, exact_results) ==
    IF exact_results = <<>>
    THEN [result |-> <<>>, trace |-> << Event("catalog", part_number, 1) >>]
    ELSE similar_to(cfg, part_number, limit, exact_results[1],
                    JoinSp(exact_results[1].manufacturer, exact_results[1].category))

get_similar_parts(cfg, part_number, limit) ==
    similar_from(cfg, part_number, limit,
                 client_search_parts(cfg.api, part_number, 1))

(***************************************************************************)
(* RecommendationEngine                                                    *)
(***************************************************************************)
NoProfile == [absent |-> TRUE]

\* Counter(labels).most_common(n): by non-increasing count, labels of equal
\* count in first-seen order
counted(labels, d) == [k \in DOMAIN d |-> <<d[k], Count(labels, d[k])>>]

most_common(labels, n) ==
    Take(Firsts(SortDescStable(counted(labels, Distinct(labels)))), n)

RECURSIVE first_branch(_, _)
\* the label of the first branch of the if/elif chain that the query takes,
\* as a list of zero or one label
first_branch(query, k) ==
    IF k > Len(category_vocabulary) THEN <<>>
    ELSE IF \E t \in category_vocabulary[k].triggers : Contains(t, query)
         THEN << category_vocabulary[k].label >>
         ELSE first_branch(query, k + 1)

RECURSIVE extract_categories(_)
extract_categories(history) ==
    IF history = <<>> THEN <<>>
    ELSE extract_categories(SubSeq(history, 1, Len(history) - 1))
         \o first_branch(lower(history[Len(history)].query), 1)

extract_favorite_categories(history) ==
    most_common(extract_categories(history), MostCommonN)

\* [mfg.title() for mfg in hits]
Titles(hits) == [k \in DOMAIN hits |-> title(hits[k])]

\* the inner loop over common_manufacturers for one query
query_manufacturers(query) ==
    Titles(Select(common_manufacturers,
                  {k \in DOMAIN common_manufacturers :
                      Contains(common_manufacturers[k], query)}))

RECURSIVE extract_manufacturers(_)
extract_manufacturers(history) ==
    IF history = <<>> THEN <<>>
    ELSE extract_manufacturers(SubSeq(history, 1, Len(history) - 1))
         \o query_manufacturers(lower(history[Len(history)].query))

extract_preferred_manufacturers(history) ==
    most_common(extract_manufacturers(history), MostCommonN)

\* a variant of store_profile: the profile is stored for every user
store_every_profile(profiles, user_id, categories, manufacturers) ==
    [u \in DOMAIN profiles |->
        [favorite_categories |-> categories,
         preferred_manufacturers |-> manufacturers]]

\* self.user_profiles[user_id] = {...}.  The "search_history" entry of the
\* stored profile is the list object passed in, which is the engine's own
\* search_history, so it is read from there and not copied here;
\* "preferences" is always {}.
store_profile(profiles, user_id, categories, manufacturers) ==
    [profiles EXCEPT ![user_id] =
        [favorite_categories |-> categories,
         preferred_manufacturers |-> manufacturers]]

\* update_user_profile run without another request in between: both
\* extractors read the same history
update_user_profile(profiles, user_id, history) ==
    store_profile(profiles, user_id,
                  extract_favorite_categories(history),
                  extract_preferred_manufacturers(history))

\* one pass of a loop body of get_personalized_recommendations, s being what
\* search_engine.search(label) returned and rest the passes after it
loop_pass(item, s, rest) ==
    [history |-> rest.history,
     recs |-> (IF s.result.results # <<>>
               THEN << Line(item.kind, item.label,
                            s.result.results[1].part_number,
                            s.result.results[1].description) >>
               ELSE <<>>) \o rest.recs,
     trace |-> s.trace \o rest.trace]

RECURSIVE recommendation_loop(_, _, _)
RECURSIVE loop_from(_, _, _)
\* the two for-loops of get_personalized_recommendations over
\* items = <<[kind, label]>>: each pass runs search_engine.search(label)
recommendation_loop(cfg, history, items) ==
    IF items = <<>> THEN [history |-> history, recs |-> <<>>, trace |-> <<>>]
    ELSE loop_from(cfg, items,
                   engine_search(cfg, history, Head(items).label, <<>>,
                                 DefaultFuzzyThreshold))

loop_from(cfg, items, s) ==
    loop_pass(Head(items), s, recommendation_loop(cfg, s.history, Tail(items)))

\* the labels one of the two loops runs over, with the template of its lines
Items(kind, labels) == [k \in DOMAIN labels |-> [kind |-> kind, label |-> labels[k]]]

\* `return recommendations[:5]`
capped(r) ==
    [history |-> r.history, recs |-> Take(r.recs, MaxPersonalized), trace |-> r.trace]

\* a variant of profile_items: every favorite category gets its search
profile_items_every_category(profile) ==
    IF profile = NoProfile THEN <<>>
    ELSE Items("Popular in", profile.favorite_categories)
         \o Items("From", Take(profile.preferred_manufacturers,
                               MaxManufacturerLines))

\* the labels the two loops of get_personalized_recommendations search for:
\* favorite_categories[:3], then preferred_manufacturers[:2]; none when the
\* user has no profile (`return []`)
profile_items(profile) ==
    IF profile = NoProfile THEN <<>>
    ELSE Items("Popular in", Take(profile.favorite_categories, MaxCategoryLines))
         \o Items("From", Take(profile.preferred_manufacturers,
                               MaxManufacturerLines))

\* get_personalized_recommendations run without another request in between
get_personalized_recommendations(cfg, history, profiles, user_id) ==
    capped(recommendation_loop(cfg, history, profile_items(profiles[user_id])))

(***************************************************************************)
(* MouserSearchApp                                                         *)
(***************************************************************************)
\* search_result.personalized_recommendations = personalized_recs
search_response(result, personalized_recs) ==
    [original_query |-> result.original_query,
     enhanced_query |-> result.enhanced_query,
     results |-> result.results,
     recommendations |-> result.recommendations,
     total_found |-> result.total_found,
     search_context |-> result.search_context,
     personalized_recommendations |-> personalized_recs]

\* search_parts run without another request in between, once search()
\* returned s and get_personalized_recommendations returned p: the profile
\* update and the response
app_response(profiles, user_id, s, p) ==
    [history |-> p.history,
     profiles |-> update_user_profile(profiles, user_id, p.history),
     result |-> search_response(s.result, p.recs),
     trace |-> s.trace \o p.trace]

\* search_parts once search() returned s
app_personalize(cfg, profiles, user_id, s) ==
    app_response(profiles, user_id, s,
                 get_personalized_recommendations(cfg, s.history, profiles, user_id))

app_search_parts(cfg, history, profiles, query, user_id, context) ==
    app_personalize(cfg, profiles, user_id,
                    engine_search(cfg, history, query, context, DefaultFuzzyThreshold))

part_or_none(part_number, results) ==
    [result |-> IF results # <<>> THEN << results[1] >> ELSE <<>>,
     trace |-> << Event("catalog", part_number, 1) >>]

app_get_part_details(cfg, part_number) ==
    part_or_none(part_number, client_search_parts(cfg.api, part_number, 1))

app_find_similar_parts(cfg, part_number) ==
    get_similar_parts(cfg, part_number, DefaultSimilarLimit)

\* the answers of the two part routes in a session, evaluated once
session_parts ==
    [e \in SessionEnvs |-> [pn \in SessionPartNumbers |->
        [details |-> app_get_part_details(e, pn),
         similar |-> app_find_similar_parts(e, pn)]]]

part_details(cfg, part_number) ==
    IF cfg \in SessionEnvs /\ part_number \in SessionPartNumbers
    THEN session_parts[cfg][part_number].details
    ELSE app_get_part_details(cfg, part_number)

similar_parts(cfg, part_number) ==
    IF cfg \in SessionEnvs /\ part_number \in SessionPartNumbers
    THEN session_parts[cfg][part_number].similar
    ELSE app_find_similar_parts(cfg, part_number)
(***************************************************************************)
(* The inputs of the ranker taken on its own                               *)
(***************************************************************************)
RankerParts ==
    { mouser_catalog[1], mouser_catalog[2], mouser_catalog[3], sample_parts[3] }

RankerQueries ==
    { <<>>, s_Resistors, <<"1","k">>, <<"T","I"," ","a","m","p">> }

RankerThresholds == {0, 50, 80, 100}


(***************************************************************************)
(* State                                                                   *)
(***************************************************************************)
VARIABLES
    search_history,  \* IntelligentSearchEngine.search_history
    user_profiles,   \* RecommendationEngine.user_profiles
    env,             \* the behaviour of the Mouser service and of the model
    last,            \* the last request answered and its response
    submitted,       \* per user, the queries of the search requests recorded
    solo,            \* per user, the state had only that user's requests run
    solo_last,       \* the personalized part of the response in solo[user]
    ranker,          \* input and output of the ranker taken on its own
    threads,         \* the requests the threaded server is running
    clock            \* how many times pd.Timestamp.now() has been read

vars == <<search_history, user_profiles, env, last,
          submitted, solo, solo_last, ranker, threads, clock>>

NoRequest == [op |-> "none"]

RankerIdle == [candidates |-> <<>>, query |-> <<>>, threshold |-> 0,
               output |-> <<>>, done |-> FALSE]

\* no request is being run by a thread of its own
NoThreads == [proc |-> <<>>, stored |-> <<>>]

NoSnapshot == [taken |-> FALSE, history |-> <<>>]

ServedSearch(r) == r.op = "search" /\ r.status = 200

\* a variant of request_query: the query as it was sent
request_query_unstripped(raw) == raw

\* data.get('query', '').strip()
request_query(raw) == strip(raw)

(***************************************************************************)
(* The threads of the server.  app.run() serves every request on a thread  *)
(* of its own, all of them on the one mouser_app; nothing in app.py or in  *)
(* the engine takes a lock.  A thread can be switched out between any two  *)
(* of the steps below, which split search_parts, update_user_profile and   *)
(* get_personalized_recommendations at every read and write of the shared  *)
(* search_history and user_profiles, and at every reading of the clock:    *)
(* each step has at most one of them.                                      *)
(* The calls of the enhancer, the catalog and the generator are requests   *)
(* on which the thread waits while the other threads run: the return of    *)
(* each is a step, and threads.proc[t].made counts those of the search()   *)
(* the thread is in.                                                       *)
(* threads.proc[t] holds the position and the locals of thread t;          *)
(* threads.stored[u] is the history the thread that stored u's profile had *)
(* read first.                                                             *)
(***************************************************************************)
\* the requests that are run at once
Threads == {1, 2}

\* a thread that runs no request
Idle ==
    [route |-> "idle", pc |-> "idle", user |-> "anonymous",
     raw |-> <<>>, query |-> <<>>, context |-> <<>>,
     result |-> <<>>, profile |-> NoProfile, items |-> <<>>, recs |-> <<>>,
     trace |-> <<>>, seen |-> <<>>, now |-> 0, made |-> 0,
     favorite_categories |-> <<>>, preferred_manufacturers |-> <<>>]

\* the server with no request in it
NoRequests ==
    [proc |-> [t \in Threads |-> Idle],
     stored |-> [u \in Users |-> NoSnapshot]]

\* the thread of a request
Arrived(route, user_id, raw, context) ==
    [Idle EXCEPT !.route = route, !.user = user_id, !.raw = raw,
                 !.query = request_query(raw), !.context = context]

\* thread t is the first one without a request: which thread serves a
\* request makes no difference to it
FirstFree(t) ==
    /\ threads.proc[t].route = "idle"
    /\ \A s \in Threads : s < t => threads.proc[s].route # "idle"

\* what the request of thread p is answered with
answer(p) ==
    IF p.route = "search"
    THEN [op |-> "search", status |-> 200, user |-> p.user,
          raw |-> p.raw, query |-> p.query, context |-> p.context,
          response |-> search_response(p.result, p.recs), trace |-> p.trace]
    ELSE IF p.route = "recommendations"
    THEN [op |-> "recommendations", status |-> 200, user |-> p.user,
          response |-> p.recs, trace |-> p.trace]
    ELSE [op |-> "update_profile", status |-> 200, user |-> p.user]

\* what search_parts leaves and answers in a state of its own
searched_alone(r) ==
    [history |-> r.history, profiles |-> r.profiles,
     recs |-> r.result.personalized_recommendations]

\* what get_personalized_recommendations leaves and answers there
recommended_alone(own, r) ==
    [history |-> r.history, profiles |-> own.profiles, recs |-> r.recs]

\* the same request run in own, the state had only this user's requests run
alone(cfg, own, p) ==
    IF p.route = "search"
    THEN searched_alone(app_search_parts(cfg, own.history, own.profiles,
                                         p.query, p.user, p.context))
    ELSE IF p.route = "recommendations"
    THEN recommended_alone(own, get_personalized_recommendations(
                                    cfg, own.history, own.profiles, p.user))
    ELSE [history |-> own.history,
          profiles |-> update_user_profile(own.profiles, p.user, own.history),
          recs |-> <<>>]

\* the request p is answered; own is the same request run alone
Answer(p, own) ==
    /\ last' = answer(p)
    /\ solo' = [solo EXCEPT ![p.user] =
                   [history |-> own.history, profiles |-> own.profiles]]
    /\ solo_last' = own.recs

\* thread t goes on to pc with its locals now being locals; at "done" the
\* route, or the method that was called, returns: the request is answered
\* and its thread ends
Step(t, pc, locals) ==
    IF pc = "done"
    THEN /\ Answer(locals, alone(env, solo[locals.user], locals))
         /\ threads' = [threads EXCEPT !.proc[t] = Idle]
    ELSE /\ threads' = [threads EXCEPT !.proc[t] = [locals EXCEPT !.pc = pc]]
         /\ UNCHANGED <<last, solo, solo_last>>

\* what search() returns and the calls it makes after the append: the
\* enhancer, the catalog, the ranker, the generator
thread_search(cfg, query, user_context) ==
    [result |-> engine_search(cfg, <<>>, query, user_context,
                              DefaultFuzzyThreshold).result,
     trace |-> Tail(engine_search(cfg, <<>>, query, user_context,
                                  DefaultFuzzyThreshold).trace)]

\* the request p after the call its search() was waiting in has returned
called(p, ev) == [p EXCEPT !.trace = Append(@, ev), !.made = @ + 1]

\* the request p after the last call of its search() has returned: search()
\* returns r.result
searched(p, r) ==
    [p EXCEPT !.result = r.result,
              !.trace = Append(@, r.trace[Len(r.trace)]),
              !.made = 0]

\* search(), by the request p: pd.Timestamp.now() is evaluated for the record
\* that is being built
ReadClock(t, pc, p) ==
    /\ clock' = clock + 1
    /\ Step(t, pc, [p EXCEPT !.now = clock + 1])
    /\ UNCHANGED <<search_history, user_profiles, submitted, env, ranker>>

\* search(query, user_context), by the request p:
\* self.search_history.append({...}) of the record it has built; the thread
\* goes on to the call of the enhancer
AppendRecord(t, pc, p, query, user_context) ==
    /\ search_history' = appended(search_history, p.now, query, user_context)
    /\ Step(t, pc, [p EXCEPT !.trace = Append(@, Event("append", query, 0)),
                             !.made = 0])
    /\ UNCHANGED <<user_profiles, env, clock, ranker>>

\* search_parts: the append of self.search_engine.search(query, context)
ThreadAppend(t) ==
    /\ threads.proc[t].pc = "stamped"
    /\ AppendRecord(t, "appended", threads.proc[t],
                    threads.proc[t].query, threads.proc[t].context)
    /\ submitted' = [submitted EXCEPT ![threads.proc[t].user] =
                                         Append(@, threads.proc[t].query)]

\* search(), by the request p, which waits in a call of r.trace, the calls
\* search() makes after the append: the enhancer, the catalog (the ranker
\* runs on its answer), the generator if there are results.  The call
\* returns; after the last one search() returns and p becomes done at
\* pc_done
CallReturns(t, waiting, p, r, pc_done, done) ==
    /\ IF p.made + 1 < Len(r.trace)
       THEN Step(t, waiting, called(p, r.trace[p.made + 1]))
       ELSE Step(t, pc_done, done)
    /\ UNCHANGED <<search_history, user_profiles, submitted, env, clock, ranker>>

\* search_parts: a call of self.search_engine.search(query, context) returns
ThreadCall(t) ==
    /\ threads.proc[t].pc = "appended"
    /\ CallReturns(t, "appended", threads.proc[t],
                   thread_search(env, threads.proc[t].query,
                                 threads.proc[t].context),
                   "searched",
                   searched(threads.proc[t],
                            thread_search(env, threads.proc[t].query,
                                          threads.proc[t].context)))

\* a variant of after_pass: the loops are not run
past_the_loops(route, items) ==
    IF route = "search" THEN "personalized" ELSE "done"

\* the position after a pass of the loops, or after `return []`: the next
\* pass, or past get_personalized_recommendations, where a search request
\* goes on to update_user_profile and a recommendations request is answered
after_pass(route, items) ==
    IF items # <<>> THEN "looping"
    ELSE IF route = "search" THEN "personalized" ELSE "done"

\* get_personalized_recommendations, by the request p: `if user_id not in
\* self.user_profiles: return []`, or profile = self.user_profiles[user_id]
ReadProfile(t, p) ==
    /\ Step(t, after_pass(p.route, profile_items(user_profiles[p.user])),
            [p EXCEPT !.profile = user_profiles[p.user],
                      !.items = profile_items(user_profiles[p.user])])
    /\ UNCHANGED <<search_history, user_profiles, submitted, env, clock, ranker>>

\* search_parts goes on to get_personalized_recommendations
ThreadReadProfile(t) ==
    /\ threads.proc[t].pc = "searched"
    /\ ReadProfile(t, threads.proc[t])

\* the line a pass adds, if its search has results
pass_line(cfg, item) ==
    loop_pass(item, thread_search(cfg, item.label, <<>>),
              [history |-> <<>>, recs |-> <<>>, trace |-> <<>>]).recs

\* the lines after a pass: `return recommendations[:5]` after the last one
pass_recs(items, recs) ==
    IF items = <<>> THEN Take(recs, MaxPersonalized) ELSE recs

\* the request p after the pass for the first of its items, whose search()
\* returns from its last call, ev
passed(cfg, p, ev) ==
    [p EXCEPT !.items = Tail(@),
              !.recs = pass_recs(Tail(p.items), @ \o pass_line(cfg, Head(p.items))),
              !.trace = Append(@, ev),
              !.made = 0]

\* a pass of a loop: self.search_engine.search(label) builds its record
ThreadLoopStamp(t) ==
    /\ threads.proc[t].pc = "looping"
    /\ ReadClock(t, "loop_stamped", threads.proc[t])

\* the pass goes on: search(label) appends the record it has built
ThreadLoopAppend(t) ==
    /\ threads.proc[t].pc = "loop_stamped"
    /\ AppendRecord(t, "loop_appended", threads.proc[t],
                    Head(threads.proc[t].items).label, <<>>)
    /\ UNCHANGED submitted

\* the last call of the search of a pass
last_call(cfg, label) ==
    thread_search(cfg, label, <<>>).trace[Len(thread_search(cfg, label, <<>>).trace)]

\* a call of the search(label) of a pass returns; after the last one the line
\* is added and the next pass begins, or the method returns
ThreadLoopCall(t) ==
    /\ threads.proc[t].pc = "loop_appended"
    /\ CallReturns(t, "loop_appended", threads.proc[t],
                   thread_search(env, Head(threads.proc[t].items).label, <<>>),
                   after_pass(threads.proc[t].route, Tail(threads.proc[t].items)),
                   passed(env, threads.proc[t],
                          last_call(env, Head(threads.proc[t].items).label)))

\* update_user_profile, by the request p:
\* self._extract_favorite_categories(search_history), the first pass over
\* the shared list
ReadCategories(t, p) ==
    /\ Step(t, "categories",
            [p EXCEPT !.seen = search_history,
                      !.favorite_categories =
                          extract_favorite_categories(search_history)])
    /\ UNCHANGED <<search_history, user_profiles, submitted, env, clock, ranker>>

\* search_parts goes on to update_user_profile
ThreadReadCategories(t) ==
    /\ threads.proc[t].pc = "personalized"
    /\ ReadCategories(t, threads.proc[t])

\* update_user_profile: self._extract_preferred_manufacturers(search_history),
\* the second pass over the shared list
ThreadReadManufacturers(t) ==
    /\ threads.proc[t].pc = "categories"
    /\ Step(t, "manufacturers",
            [threads.proc[t] EXCEPT
                !.preferred_manufacturers =
                    extract_preferred_manufacturers(search_history)])
    /\ UNCHANGED <<search_history, user_profiles, submitted, env, clock, ranker>>

\* the history the thread that stores user_id's profile had read
snapshot(stored, user_id, seen) ==
    [stored EXCEPT ![user_id] = [taken |-> TRUE, history |-> seen]]

\* update_user_profile: self.user_profiles[user_id] = {...}, and the return
ThreadStore(t) ==
    /\ threads.proc[t].pc = "manufacturers"
    /\ user_profiles' =
          store_profile(user_profiles, threads.proc[t].user,
                        threads.proc[t].favorite_categories,
                        threads.proc[t].preferred_manufacturers)
    /\ Answer(threads.proc[t],
              alone(env, solo[threads.proc[t].user], threads.proc[t]))
    /\ threads' = [proc |-> [threads.proc EXCEPT ![t] = Idle],
                   stored |-> snapshot(threads.stored, threads.proc[t].user,
                                       threads.proc[t].seen)]
    /\ UNCHANGED <<search_history, submitted, env, clock, ranker>>

\* the "search_history" entry of u's stored profile: the list object that was
\* passed in, which is the engine's own list
stored_search_history(history, profiles, user_id) ==
    IF profiles[user_id] = NoProfile THEN <<>> ELSE history

\* the steps of the requests that are being served
Serve ==
    \/ \E t \in Threads : ThreadAppend(t)
    \/ \E t \in Threads : ThreadCall(t)
    \/ \E t \in Threads : ThreadReadProfile(t)
    \/ \E t \in Threads : ThreadLoopStamp(t)
    \/ \E t \in Threads : ThreadLoopAppend(t)
    \/ \E t \in Threads : ThreadLoopCall(t)
    \/ \E t \in Threads : ThreadReadCategories(t)
    \/ \E t \in Threads : ThreadReadManufacturers(t)
    \/ \E t \in Threads : ThreadStore(t)

(***************************************************************************)
(* The routes of app.py.  session['user_id'] lives in the cookie that the  *)
(* browser sends with the request, so it is an input of each request; a    *)
(* request without it runs as 'anonymous'.  A request starts with its      *)
(* first reading of the clock or of user_profiles; a route that reads and  *)
(* writes nothing of the engine is one step.                               *)
(***************************************************************************)
InitApp ==
    /\ search_history = <<>>
    /\ clock = 0
    /\ user_profiles = [u \in Users |-> NoProfile]
    /\ last = NoRequest
    /\ submitted = [u \in Users |-> <<>>]
    /\ solo = [u \in Users |->
                 [history |-> <<>>, profiles |-> [v \in Users |-> NoProfile]]]
    /\ solo_last = <<>>

Init ==
    /\ InitApp
    /\ env \in Envs
    /\ ranker = RankerIdle
    /\ threads = NoRequests

\* GET /: the search page is rendered; nothing on the server changes
Index ==
    /\ last' = [op |-> "index", status |-> 200]
    /\ UNCHANGED <<search_history, user_profiles, env, clock, submitted, solo,
                   solo_last, ranker, threads>>

\* POST /set-user: answers with the cookie; nothing on the server changes
SetUser(user_id) ==
    /\ last' = [op |-> "set_user", status |-> 200, user |-> user_id]
    /\ UNCHANGED <<search_history, user_profiles, env, clock, submitted, solo,
                   solo_last, ranker, threads>>

\* POST /search, `if not query`: 400
SearchRejected(raw, context) ==
    /\ request_query(raw) = <<>>
    /\ last' = [op |-> "search", status |-> 400,
                raw |-> raw, query |-> request_query(raw), context |-> context,
                trace |-> <<>>]
    /\ UNCHANGED <<search_history, user_profiles, env, clock, submitted,
                   solo, solo_last, ranker, threads>>

\* POST /search with a query: mouser_app.search_parts(query, user_id, context)
\* is called, and search() appends the record of the request

RECURSIVE TotalLen(_, _)
\* the lengths of f[u], u in S, added up
TotalLen(f, S) ==
    IF S = {} THEN 0
    ELSE LET u == CHOOSE v \in S : TRUE
         IN Len(f[u]) + TotalLen(f, S \ {u})

\* the search requests accepted so far: those whose record is appended and
\* those that have built it
Accepted ==
    TotalLen(submitted, Users)
       + Cardinality({t \in Threads : threads.proc[t].pc = "stamped"})

SearchServed(t, raw, user_id, context) ==
    /\ request_query(raw) # <<>>
    /\ Accepted < MaxSearches
    /\ FirstFree(t)
    /\ ReadClock(t, "stamped", Arrived("search", user_id, raw, context))

\* the threads in a pass of the loops of get_personalized_recommendations
Looping ==
    {t \in Threads :
        threads.proc[t].pc \in {"looping", "loop_stamped", "loop_appended"}}

\* GET /recommendations:
\* mouser_app.recommendation_engine.get_personalized_recommendations(user_id)
\* is called, and looks for the profile
GetRecommendations(t, user_id) ==
    /\ \/ user_profiles[user_id] = NoProfile
       \/ /\ Len(search_history) < MaxHistory
          /\ Cardinality(Looping) < MaxLooping
    /\ FirstFree(t)
    /\ ReadProfile(t, Arrived("recommendations", user_id, <<>>, <<>>))

\* a variant of Answered: the route records the part number in the history
\* the way search() records a query
Answered_recorded(op, status, part_number, r) ==
    /\ last' = [op |-> op, status |-> status, query |-> part_number,
                limit |-> DefaultSimilarLimit,
                response |-> r.result, trace |-> r.trace]
    /\ search_history' = appended(search_history, clock + 1, part_number, <<>>)
    /\ UNCHANGED <<user_profiles, env, clock, submitted,
                   solo, solo_last, ranker, threads>>

\* GET /part/<part_number>
Answered(op, status, part_number, r) ==
    /\ last' = [op |-> op, status |-> status, query |-> part_number,
                limit |-> DefaultSimilarLimit,
                response |-> r.result, trace |-> r.trace]
    /\ UNCHANGED <<search_history, user_profiles, env, clock, submitted,
                   solo, solo_last, ranker, threads>>

PartStatus(r) == IF r.result = <<>> THEN 404 ELSE 200

GetPartDetails(part_number) ==
    Answered("get_part", PartStatus(part_details(env, part_number)),
             part_number, part_details(env, part_number))

\* GET /similar/<part_number>
GetSimilarParts(part_number) ==
    Answered("find_similar", 200, part_number,
             similar_parts(env, part_number))

\* the requests that call search_parts and
\* get_personalized_recommendations, the two methods through which the
\* routes read and write search_history and user_profiles, under every stub
\* configuration; NextSession has every route of app.py
Next ==
    \/ \E t \in Threads, raw \in RawQueries, u \in Users, c \in Contexts :
          SearchServed(t, raw, u, c)
    \/ \E t \in Threads, u \in RecommendationUsers : GetRecommendations(t, u)
    \/ Serve

Spec == Init /\ [][Next]_vars

(***************************************************************************)
(* The two part routes on their own: neither reads nor writes               *)
(* search_history or user_profiles                                          *)
(***************************************************************************)
\* IntelligentSearchEngine.get_similar_parts called with a limit of its own
SimilarWithLimit(part_number, limit) ==
    /\ last' = [op |-> "get_similar_parts", status |-> 200,
                query |-> part_number, limit |-> limit,
                response |-> get_similar_parts(env, part_number, limit).result,
                trace |-> get_similar_parts(env, part_number, limit).trace]
    /\ UNCHANGED <<search_history, user_profiles, env, clock, submitted,
                   solo, solo_last, ranker, threads>>

InitParts ==
    /\ InitApp
    /\ env \in PartsEnvs
    /\ ranker = RankerIdle
    /\ threads = NoThreads

NextParts ==
    \/ \E pn \in PartNumbers : GetPartDetails(pn)
    \/ \E pn \in PartNumbers : GetSimilarParts(pn)
    \/ \E pn \in PartNumbers, n \in SimilarLimits : SimilarWithLimit(pn, n)

SpecParts == InitParts /\ [][NextParts]_vars

(***************************************************************************)
(* Profiles and recommendations from stored histories: update_user_profile *)
(* and get_personalized_recommendations called, one after the other or at  *)
(* once, on the histories of up to MaxStoredQueries records that a choice  *)
(* of the queries below leaves                                             *)
(***************************************************************************)
\* the longest stored history at the start, and the longest history on which
\* a user with a profile is given recommendations
MaxStoredQueries == 4

SeqsUpTo(S, n) == UNION {[1..m -> S] : m \in 0..n}

\* the queries search() was called with, in the order of the calls
ProfileQueries ==
    << <<"T","I"," ","r","e","s","i","s","t","o","r"," ","c","a","p","a","c","i","t","o","r">>,
       <<"m","a","x","i","m"," ","c","a","p","a","c","i","t","o","r">>,
       <<"N","X","P"," ","t","r","a","n","s","i","s","t","o","r">>,
       <<"I","C">> >>

\* what search() has appended after it was called with these queries
Stored(queries) ==
    [k \in DOMAIN queries |->
        [query |-> queries[k], context |-> <<>>, timestamp |-> k]]

\* the histories after some of these calls
StoredHistories ==
    {Stored(Select(ProfileQueries, made)) :
        made \in {ks \in SUBSET DOMAIN ProfileQueries :
                     Cardinality(ks) <= MaxStoredQueries}}

InitProfile ==
    /\ search_history \in StoredHistories
    /\ clock = Len(search_history)
    /\ user_profiles = [u \in Users |-> NoProfile]
    /\ last = NoRequest
    /\ submitted = [u \in Users |-> <<>>]
    /\ solo = [u \in Users |->
                 [history |-> <<>>, profiles |-> [v \in Users |-> NoProfile]]]
    /\ solo_last = <<>>
    /\ env \in ProfileEnvs
    /\ ranker = RankerIdle
    /\ threads = NoRequests

\* recommendation_engine.update_user_profile(user_id, search_history, {}) is
\* called, and makes its first pass over the list
UpdateProfile(t, user_id) ==
    /\ FirstFree(t)
    /\ ReadCategories(t, Arrived("update_profile", user_id, <<>>, <<>>))

\* recommendation_engine.get_personalized_recommendations(user_id) is
\* called, and looks for the profile
RecommendStored(t, user_id) ==
    /\ \/ user_profiles[user_id] = NoProfile
       \/ /\ Len(search_history) <= MaxStoredQueries
          /\ Cardinality(Looping) < MaxLooping
    /\ FirstFree(t)
    /\ ReadProfile(t, Arrived("recommendations", user_id, <<>>, <<>>))

\* the steps of the two methods after their first
ServeStored ==
    \/ \E t \in Threads : ThreadLoopStamp(t)
    \/ \E t \in Threads : ThreadLoopAppend(t)
    \/ \E t \in Threads : ThreadLoopCall(t)
    \/ \E t \in Threads : ThreadReadManufacturers(t)
    \/ \E t \in Threads : ThreadStore(t)

NextProfile ==
    \/ \E t \in Threads, u \in ProfileUsers : UpdateProfile(t, u)
    \/ \E t \in Threads, u \in Users : RecommendStored(t, u)
    \/ ServeStored

SpecProfile == InitProfile /\ [][NextProfile]_vars

(***************************************************************************)
(* The ranker on its own: every candidate list, query and threshold        *)
(***************************************************************************)
InitRanker ==
    /\ InitApp
    /\ env = [api |-> "ok", enhancer |-> "text", generator |-> "text",
              hash_seed |-> InsertionOrder]
    /\ ranker \in [candidates : SeqsUpTo(RankerParts, MaxCandidates),
                   query : RankerQueries,
                   threshold : RankerThresholds,
                   output : {<<>>}, done : {FALSE}]
    /\ threads = NoThreads

Rank ==
    /\ ~ranker.done
    /\ ranker' = [ranker EXCEPT
                     !.output = apply_fuzzy_matching(ranker.candidates,
                                                     ranker.query,
                                                     ranker.threshold),
                     !.done = TRUE]
    /\ UNCHANGED <<search_history, user_profiles, env, clock, last,
                   submitted, solo, solo_last, threads>>

NextRanker == Rank

SpecRanker == InitRanker /\ [][NextRanker]_vars

(***************************************************************************)
(* Every route of app.py on one mouser_app: the part routes, the rejected  *)
(* searches and /set-user between and during the requests of Next          *)
(***************************************************************************)
InitSession ==
    /\ InitApp
    /\ env \in SessionEnvs
    /\ ranker = RankerIdle
    /\ threads = NoRequests

NextSession ==
    \/ Index
    \/ \E u \in Users : SetUser(u)
    \/ \E raw \in RawQueries, c \in Contexts : SearchRejected(raw, c)
    \/ \E t \in Threads, raw \in RawQueries, u \in Users, c \in Contexts :
          SearchServed(t, raw, u, c)
    \/ \E t \in Threads, u \in RecommendationUsers : GetRecommendations(t, u)
    \/ Serve
    \/ \E pn \in SessionPartNumbers : GetPartDetails(pn)
    \/ \E pn \in SessionPartNumbers : GetSimilarParts(pn)

SpecSession == InitSession /\ [][NextSession]_vars

(***************************************************************************)
(* generate_recommendations on its own: every ranked list of up to         *)
(* MaxCandidates parts, every behaviour of the generator and every         *)
(* iteration order of the two sets of _fallback_recommendations            *)
(***************************************************************************)
\* parts of two manufacturers and two categories, two of them sharing the
\* manufacturer and the category
FallbackParts == { sample_parts[1], sample_parts[2], mouser_catalog[3] }

\* the lists of two or more labels that _fallback_recommendations makes a
\* set of: the manufacturers and the categories of a ranked list
FallbackLabelLists ==
    { d \in { Distinct(Field(r, f)) :
                r \in SeqsUpTo(FallbackParts, MaxCandidates),
                f \in {"manufacturer", "category"} } : Len(d) >= 2 }

\* every string hashing, by the first label of each of these sets
FallbackOrders ==
    { { <<d, first[d]>> : d \in FallbackLabelLists } :
        first \in { g \in [FallbackLabelLists -> 1..MaxCandidates] :
                       \A d \in FallbackLabelLists : g[d] <= Len(d) } }

FallbackEnvs ==
    { [api |-> "ok", enhancer |-> "text", generator |-> g, hash_seed |-> h] :
        g \in GeneratorModes, h \in FallbackOrders }

InitFallback ==
    /\ InitApp
    /\ env \in FallbackEnvs
    /\ ranker = RankerIdle
    /\ threads = NoThreads

\* gemini_assistant.generate_recommendations(search_results, user_query)
GenerateRecommendations(search_results, user_query) ==
    /\ last' = [op |-> "generate_recommendations", status |-> 200,
                results |-> search_results, query |-> user_query,
                response |-> generate_recommendations(env.generator, env.hash_seed,
                                                      search_results, user_query)]
    /\ UNCHANGED <<search_history, user_profiles, env, clock, submitted,
                   solo, solo_last, ranker, threads>>

NextFallback ==
    \E search_results \in SeqsUpTo(FallbackParts, MaxCandidates) :
       GenerateRecommendations(search_results, <<"q">>)

SpecFallback == InitFallback /\ [][NextFallback]_vars

(***************************************************************************)
(* Properties                                                              *)
(***************************************************************************)
\* part_score over the inputs of the ranker runs, computed once
ranker_scores ==
    [p \in RankerParts |-> [q \in RankerQueries |-> part_score(p, q)]]

score_of(p, q) ==
    IF p \in RankerParts /\ q \in RankerQueries
    THEN ranker_scores[p][q]
    ELSE part_score(p, q)

\* the positions of s whose part scores exactly n against q
scoring(s, q, n) == {k \in DOMAIN s : score_of(s[k], q) = n}

\* the parts of s, and the scores they have against q
Parts(s) == {s[k] : k \in DOMAIN s}

Scores(s, q) == {score_of(s[k], q) : k \in DOMAIN s}

\* C1: the ranker's output holds exactly the candidates whose partial-match
\* score against the query is at least the threshold, each as often as it was
\* handed in and nothing else; an empty candidate list gives an empty output.
C1_RankerKeepsExactlyThePassing ==
    ranker.done =>
        /\ \A p \in Parts(ranker.candidates) \cup Parts(ranker.output) :
              Count(ranker.output, p) =
                 IF score_of(p, ranker.query) >= ranker.threshold
                 THEN Count(ranker.candidates, p)
                 ELSE 0
        /\ ranker.candidates = <<>> => ranker.output = <<>>

\* a run that dropped a candidate, kept one that was handed in twice and
\* kept one whose score is the threshold itself
C1_Witness ==
    /\ ranker.done
    /\ Len(ranker.output) < Len(ranker.candidates)
    /\ \E i, j \in DOMAIN ranker.output :
          i # j /\ ranker.output[i] = ranker.output[j]
    /\ \E k \in DOMAIN ranker.output :
          score_of(ranker.output[k], ranker.query) = ranker.threshold

\* C2: the ranker's output is in non-increasing score order, and candidates
\* of equal score come out in the order they were handed in.
C2_RankerSortsStably ==
    ranker.done =>
        /\ \A i, j \in DOMAIN ranker.output :
              i < j => score_of(ranker.output[i], ranker.query)
                          >= score_of(ranker.output[j], ranker.query)
        /\ \A n \in Scores(ranker.output, ranker.query) :
              Select(ranker.output, scoring(ranker.output, ranker.query, n))
                 = Select(ranker.candidates,
                          scoring(ranker.candidates, ranker.query, n))

\* a run that moved a higher score in front of a lower one handed in earlier
\* and kept two different parts of equal score
C2_Witness ==
    /\ ranker.done
    /\ \E i, j \in DOMAIN ranker.candidates :
          /\ i < j
          /\ ranker.threshold <= score_of(ranker.candidates[i], ranker.query)
          /\ score_of(ranker.candidates[i], ranker.query)
                < score_of(ranker.candidates[j], ranker.query)
    /\ \E i, j \in DOMAIN ranker.output :
          /\ i < j
          /\ ranker.output[i] # ranker.output[j]
          /\ score_of(ranker.output[i], ranker.query)
                = score_of(ranker.output[j], ranker.query)

\* C3: a search request that repeats the served search request answered right
\* before it, with the same query, user and context, gets the same response.
C3_RepeatedSearchSameResponse ==
    [][ ( /\ ServedSearch(last')
          /\ ServedSearch(last)
          /\ last'.query = last.query
          /\ last'.user = last.user
          /\ last'.context = last.context )
        => last'.response = last.response ]_vars

\* no request is being served
Quiet == \A t \in Threads : threads.proc[t].route = "idle"

\* C4: a user's stored profile, and the personalized recommendations a
\* request of theirs was answered with, are what they would be had only that
\* user's own requests been made.
C4_PersonalizationFromOwnQueries ==
    Quiet =>
        /\ \A u \in Users : user_profiles[u] = solo[u].profiles[u]
        /\ ServedSearch(last) =>
              last.response.personalized_recommendations = solo_last
        /\ last.op = "recommendations" => last.response = solo_last

\* C5: the history holds one record per search request that was recorded,
\* each with the query of such a request.
C5_OneRecordPerSearchRequest ==
    /\ Len(search_history) = TotalLen(submitted, Users)
    /\ \A k \in DOMAIN search_history :
          \E u \in Users : \E j \in DOMAIN submitted[u] :
             search_history[k].query = submitted[u][j]

\* the personalized recommendations derived from the history with the
\* request's record appended and the profile computed from that history
from_current_query(cfg, history, profiles, user_id) ==
    get_personalized_recommendations(
        cfg, history, update_user_profile(profiles, user_id, history), user_id).recs

\* C6: the personalized recommendations of a served search are derived from
\* a history that already includes the record of the request, and from the
\* profile of that history.
C6_PersonalizedFromCurrentQuery ==
    ServedSearch(last) =>
        \E n \in DOMAIN search_history :
           /\ \E k \in 1..n : search_history[k].query = last.query
           /\ last.response.personalized_recommendations =
                 from_current_query(env, SubSeq(search_history, 1, n),
                                    user_profiles, last.user)

\* the query is empty or all whitespace
Blank(raw) == \A k \in DOMAIN raw : raw[k] \in Whitespace

\* C7: a search request whose query is empty or all whitespace is answered
\* with status 400, without a call to the catalog, the enhancer or the
\* generator; answering it leaves the history and the profiles as they were,
\* and no thread ever serves such a request.
C7_BlankQueryRejected ==
    [][ /\ (last'.op = "search" /\ Blank(last'.raw)) =>
              /\ last'.status = 400
              /\ last'.trace = <<>>
        /\ (last' # last /\ last'.op = "search" /\ Blank(last'.raw)) =>
              /\ search_history' = search_history
              /\ user_profiles' = user_profiles
        /\ \A t \in Threads :
              threads'.proc[t].route = "search" => ~Blank(threads'.proc[t].raw) ]_vars

\* an all-whitespace query rejected after an earlier search was served
C7_Witness ==
    /\ last.op = "search"
    /\ last.status = 400
    /\ last.raw = <<"\r", "\n">>
    /\ search_history # <<>>

\* C8: the recommendations route answers a user who has submitted no search
\* with status 200 and an empty list, without any call, whatever other users
\* have searched.
C8_NoSearchNoPersonalized ==
    (last.op = "recommendations" /\ submitted[last.user] = <<>>) =>
        /\ last.status = 200
        /\ last.response = <<>>
        /\ last.trace = <<>>

\* such a request after another user's search stored a profile
C8_Witness ==
    /\ last.op = "recommendations"
    /\ submitted[last.user] = <<>>
    /\ \E u \in Users : user_profiles[u] # NoProfile

\* C9: when the enhancer raises or returns nothing, a served search has
\* enhanced_query equal to original_query, and every catalog query of the
\* request is made with the query that was to be enhanced.
C9_EnhancerFailureKeepsQuery ==
    (ServedSearch(last) /\ env.enhancer \in {"raise", "empty"}) =>
        /\ last.response.original_query = last.query
        /\ last.response.enhanced_query = last.query
        /\ \A k \in DOMAIN last.trace :
              last.trace[k].ev = "enhance" =>
                 /\ k + 1 \in DOMAIN last.trace
                 /\ last.trace[k + 1] =
                       Event("catalog", last.trace[k].term, DefaultLimit)

\* a search served with results while the enhancer raises
C9_Witness ==
    /\ ServedSearch(last)
    /\ env.enhancer = "raise"
    /\ last.response.results # <<>>
    /\ \E k \in DOMAIN last.trace : last.trace[k].ev = "catalog"

\* the recommendations of the response are fallback lines, at least one and
\* at most three
FallbackList(recs) ==
    /\ recs # <<>>
    /\ Len(recs) <= 3
    /\ \A k \in DOMAIN recs : recs[k].kind # "ai"

\* C10: during a served search the generator is asked for the recommendations
\* of the ranked list, whatever the list holds, an empty list included; when
\* it raises or returns nothing, the recommendations of the search are the
\* fallback list, non-empty and of at most three entries.
C10_FallbackForEveryRankedList ==
    (ServedSearch(last) /\ env.generator \in {"raise", "empty"}) =>
        /\ \E k \in DOMAIN last.trace :
              last.trace[k] = Event("generate", last.query, 0)
        /\ FallbackList(last.response.recommendations)

\* the number of records search() appended during a request
AppendsIn(trace) == Cardinality({k \in DOMAIN trace : trace[k].ev = "append"})

\* the number of labels the personalization step searches for
LabelsOf(profile) ==
    IF profile = NoProfile THEN 0
    ELSE (IF Len(profile.favorite_categories) < 3
          THEN Len(profile.favorite_categories) ELSE 3)
         + (IF Len(profile.preferred_manufacturers) < 2
            THEN Len(profile.preferred_manufacturers) ELSE 2)

\* the fields of the response of a served search
SearchResultFields ==
    {"original_query", "enhanced_query", "results", "recommendations",
     "total_found", "search_context", "personalized_recommendations"}

\* C11: a search request with a non-empty query is answered with status 200
\* and a complete result under every combination of failures of the catalog,
\* the enhancer and the generator, and every sub-step runs: each search of the
\* request appends, enhances and queries the catalog in this order, the
\* generator is asked whenever there are results, and the personalization
\* step searches for every label of the profile it read.
C11_EverySubStepRuns ==
    [][ /\ (last'.op = "search" /\ last'.query # <<>>) =>
              /\ last'.status = 200
              /\ DOMAIN last'.response = SearchResultFields
              /\ last'.response.enhanced_query # <<>>
              /\ last'.response.results # <<>> =>
                    last'.response.recommendations # <<>>
              /\ \A k \in DOMAIN last'.trace :
                    last'.trace[k].ev = "append" =>
                       /\ k + 2 \in DOMAIN last'.trace
                       /\ last'.trace[k + 1].ev = "enhance"
                       /\ last'.trace[k + 2].ev = "catalog"
              /\ last'.response.results # <<>> =>
                    (Len(last'.trace) >= 4 /\ last'.trace[4].ev = "generate")
        /\ \A t \in Threads :
              (threads.proc[t].route = "search"
                 /\ threads'.proc[t].route = "idle") =>
                 /\ last' = answer(threads.proc[t])
                 /\ AppendsIn(last'.trace) =
                       1 + LabelsOf(threads.proc[t].profile) ]_vars

\* a search served with a stored profile while the catalog, the enhancer
\* and the generator all fail
C11_Witness ==
    /\ ServedSearch(last)
    /\ env.api = "error" /\ env.enhancer = "raise" /\ env.generator = "raise"
    /\ AppendsIn(last.trace) >= 2
    /\ last.response.personalized_recommendations # <<>>

\* C12: when the catalog call fails, the results of a served search are
\* empty and total_found is 0.
C12_CatalogFailureGivesNoResults ==
    (ServedSearch(last) /\ env.api = "error") =>
        /\ last.response.results = <<>>
        /\ last.response.total_found = 0

\* the records the part routes can get: the service's catalogue, or the
\* sample parts when the service fails
RecordsBehind(api) == IF api = "error" THEN sample_parts ELSE service_catalog(api)

NoRecordFor(api, part_number) ==
    \A k \in DOMAIN RecordsBehind(api) :
        RecordsBehind(api)[k].part_number # part_number

SimilarOps == {"find_similar", "get_similar_parts"}

\* C13: for a part number without a record, get_part answers absent and
\* find_similar answers an empty list after a single catalog query.
C13_NoRecordNoPart ==
    (last.op \in {"get_part"} \cup SimilarOps
       /\ NoRecordFor(env.api, last.query)) =>
        /\ last.response = <<>>
        /\ Len(last.trace) = 1
        /\ last.op = "get_part" => last.status = 404

\* C14 as stated: no record find_similar(p) returns has the part number p.
C14_NeverTheRequestedNumber ==
    last.op \in SimilarOps =>
        \A k \in DOMAIN last.response :
            last.response[k].part_number # last.query

\* the record the single-result lookup of a similar-parts request resolved
ReferenceOf(api, part_number) == client_search_parts(api, part_number, 1)

\* the candidates of the secondary query of a similar-parts request
CandidatesOf(api, reference_part, limit) ==
    client_search_parts(api,
                        JoinSp(reference_part.manufacturer, reference_part.category),
                        2 * limit)

\* C14: no record find_similar(p) returns has the part number of the
\* reference part that the single-result lookup resolved for p.
C14_NeverTheReference ==
    (last.op \in SimilarOps /\ ReferenceOf(env.api, last.query) # <<>>) =>
        \A k \in DOMAIN last.response :
            last.response[k].part_number
               # ReferenceOf(env.api, last.query)[1].part_number

\* a request that returned parts and whose candidates held the reference
C14_Witness ==
    /\ last.op \in SimilarOps
    /\ last.response # <<>>
    /\ ReferenceOf(env.api, last.query) # <<>>
    /\ \E k \in DOMAIN CandidatesOf(env.api, ReferenceOf(env.api, last.query)[1],
                                   last.limit) :
          CandidatesOf(env.api, ReferenceOf(env.api, last.query)[1],
                       last.limit)[k].part_number
             = ReferenceOf(env.api, last.query)[1].part_number

\* the positions of the candidates that are kept: another part number than
\* the reference's and a whole-string similarity above 60
KeptOf(reference_part, cands) ==
    {k \in DOMAIN cands :
        /\ cands[k].part_number # reference_part.part_number
        /\ fuzz_ratio(reference_part.description, cands[k].description) > 60}

\* position j comes before position k: higher similarity, or the same and
\* earlier in the catalog's answer
Before(reference_part, cands, j, k) ==
    \/ fuzz_ratio(reference_part.description, cands[j].description)
          > fuzz_ratio(reference_part.description, cands[k].description)
    \/ /\ fuzz_ratio(reference_part.description, cands[j].description)
             = fuzz_ratio(reference_part.description, cands[k].description)
       /\ j < k

\* the kept position that n kept positions come before
NthKept(reference_part, cands, kept, n) ==
    CHOOSE k \in kept :
        Cardinality({j \in kept : Before(reference_part, cands, j, k)}) = n

\* the first `limit` kept candidates in that order
SimilarReference(reference_part, cands, kept, limit) ==
    [i \in 1..(IF Cardinality(kept) < limit THEN Cardinality(kept) ELSE limit) |->
        cands[NthKept(reference_part, cands, kept, i - 1)]]

\* C15: find_similar(p, limit) answers the first `limit` of the candidates of
\* the secondary query "<manufacturer> <category>" (asked with 2*limit) that
\* have another part number than the reference and a similarity above 60 to
\* its description, by non-increasing similarity with ties in catalog order.
C15_SimilarIsTheReferenceComputation ==
    (last.op \in SimilarOps /\ ReferenceOf(env.api, last.query) # <<>>) =>
        /\ last.response =
              SimilarReference(
                 ReferenceOf(env.api, last.query)[1],
                 CandidatesOf(env.api, ReferenceOf(env.api, last.query)[1],
                              last.limit),
                 KeptOf(ReferenceOf(env.api, last.query)[1],
                        CandidatesOf(env.api, ReferenceOf(env.api, last.query)[1],
                                     last.limit)),
                 last.limit)
        /\ last.trace =
              << Event("catalog", last.query, 1),
                 Event("catalog",
                       JoinSp(ReferenceOf(env.api, last.query)[1].manufacturer,
                              ReferenceOf(env.api, last.query)[1].category),
                       2 * last.limit) >>

\* a request cut to its limit, with a tie and a reordering in what it kept
C15_Witness ==
    /\ last.op \in SimilarOps
    /\ Len(last.response) = last.limit
    /\ last.limit >= 2
    /\ ReferenceOf(env.api, last.query) # <<>>
    /\ Cardinality(KeptOf(ReferenceOf(env.api, last.query)[1],
                          CandidatesOf(env.api,
                                       ReferenceOf(env.api, last.query)[1],
                                       last.limit))) > last.limit
    /\ fuzz_ratio(ReferenceOf(env.api, last.query)[1].description,
                  last.response[1].description)
          = fuzz_ratio(ReferenceOf(env.api, last.query)[1].description,
                       last.response[2].description)

\* the records the catalog returned for the search of a served request
RawResults(api, response) ==
    client_search_parts(api, response.enhanced_query, DefaultLimit)

\* C16: in the result of a served search total_found is the number of
\* records in results, which are records the catalog returned for the
\* request and no more of them than it returned.
C16_TotalFoundCountsResults ==
    ServedSearch(last) =>
        /\ last.response.total_found = Len(last.response.results)
        /\ Len(last.response.results) <= Len(RawResults(env.api, last.response))
        /\ \A k \in DOMAIN last.response.results :
              Count(last.response.results, last.response.results[k])
                 <= Count(RawResults(env.api, last.response),
                          last.response.results[k])

\* a served search whose ranker dropped records the catalog returned
C16_Witness ==
    /\ ServedSearch(last)
    /\ last.response.total_found < Len(RawResults(env.api, last.response))

\* the number of lines of a template in a recommendation list
LinesOf(recs, kind) == Cardinality({k \in DOMAIN recs : recs[k].kind = kind})

\* C17: a personalized recommendation list has at most 5 entries: at most 3
\* "Popular in" lines, then at most 2 "From" lines, and nothing else.
C17_PersonalizedListShape ==
    last.op = "recommendations" =>
        /\ Len(last.response) <= 5
        /\ LinesOf(last.response, "Popular in") <= 3
        /\ LinesOf(last.response, "From") <= 2
        /\ \A k \in DOMAIN last.response :
              last.response[k].kind \in {"Popular in", "From"}
        /\ \A j, k \in DOMAIN last.response :
              (last.response[j].kind = "From"
                 /\ last.response[k].kind = "Popular in") => k < j

\* a list of 3 + 2 lines from a profile with four categories and three
\* manufacturers
C17_Witness ==
    /\ last.op = "recommendations"
    /\ Len(last.response) = 5
    /\ LinesOf(last.response, "Popular in") = 3
    /\ Len(user_profiles[last.user].favorite_categories) = 4
    /\ Len(user_profiles[last.user].preferred_manufacturers) = 3

\* s is the beginning of t
IsPrefix(s, t) == Len(s) <= Len(t) /\ SubSeq(t, 1, Len(s)) = s

\* the calls thread t's request has made after the step: those of its answer
\* when the step answers it
TraceAfter(t) ==
    IF threads.proc[t].route # "idle" /\ threads'.proc[t].route = "idle"
    THEN last'.trace
    ELSE threads'.proc[t].trace

\* the records of history are in the order in which they were built: none
\* stands before a record with an earlier timestamp
Chronological(history) ==
    \A i, j \in DOMAIN history :
       i < j => history[i].timestamp <= history[j].timestamp

\* C19: in every step of every route the history before it is the beginning
\* of the history after it, and the history after it is in the order of its
\* timestamps; a step adds at most one record, the record of the search a
\* request has just begun; and each search appends its record before the
\* enhancer is called for it.
C19_HistoryAppendOnlyChronological ==
    [][ /\ IsPrefix(search_history, search_history')
        /\ Chronological(search_history')
        /\ search_history' # search_history =>
              /\ Len(search_history') = Len(search_history) + 1
              /\ \E t \in Threads :
                    /\ IsPrefix(threads.proc[t].trace, TraceAfter(t))
                    /\ Len(TraceAfter(t)) > Len(threads.proc[t].trace)
                    /\ TraceAfter(t)[Len(threads.proc[t].trace) + 1] =
                          Event("append",
                                search_history'[Len(search_history')].query, 0)
        /\ \A t \in Threads : \A k \in DOMAIN threads'.proc[t].trace :
              threads'.proc[t].trace[k].ev = "enhance" =>
                 /\ k > 1
                 /\ threads'.proc[t].trace[k - 1] =
                       Event("append", threads'.proc[t].trace[k].term, 0)
        /\ last'.op \in {"search", "recommendations"} =>
              \A k \in DOMAIN last'.trace :
                 last'.trace[k].ev = "enhance" =>
                    /\ k > 1
                    /\ last'.trace[k - 1] =
                          Event("append", last'.trace[k].term, 0) ]_vars

\* the number of recorded queries in which a trigger of the category occurs
Tally(history, entry) ==
    Cardinality({k \in DOMAIN history :
                    \E t \in entry.triggers :
                       Contains(t, lower(history[k].query))})

\* the first recorded query in which a trigger of the category occurs
FirstSeen(history, entry) ==
    SetMin({k \in DOMAIN history :
               \E t \in entry.triggers : Contains(t, lower(history[k].query))})

\* the vocabulary entry of a label
EntryOf(label) ==
    category_vocabulary[CHOOSE k \in DOMAIN category_vocabulary :
                           category_vocabulary[k].label = label]

\* the favorite categories a thread has derived from the history it read
Derived(t) == threads.proc[t].favorite_categories

\* C20: favorite_categories holds each category with a trigger in at least
\* one recorded query, once; a query counts for every category it has a
\* trigger of; the order is by non-increasing tally, first seen first.
C20_FavoritesTestEveryTrigger ==
    \A t \in Threads :
        threads.proc[t].pc \in {"categories", "manufacturers"} =>
            /\ \A k \in DOMAIN category_vocabulary :
                  Count(Derived(t), category_vocabulary[k].label)
                     = IF Tally(threads.proc[t].seen, category_vocabulary[k]) > 0
                       THEN 1 ELSE 0
            /\ \A i, j \in DOMAIN Derived(t) :
                  i < j =>
                     \/ Tally(threads.proc[t].seen, EntryOf(Derived(t)[i]))
                           > Tally(threads.proc[t].seen, EntryOf(Derived(t)[j]))
                     \/ /\ Tally(threads.proc[t].seen, EntryOf(Derived(t)[i]))
                              = Tally(threads.proc[t].seen, EntryOf(Derived(t)[j]))
                        /\ FirstSeen(threads.proc[t].seen, EntryOf(Derived(t)[i]))
                              <= FirstSeen(threads.proc[t].seen,
                                           EntryOf(Derived(t)[j]))

\* the two thread positions between the first read of the history for a
\* profile and the storing of that profile
Deriving == {"categories", "manufacturers"}

\* C18: while a request derives a profile, no other request appends to the
\* history it reads; the stored profile is derived from one snapshot of the
\* history; and the history held in a stored profile stays what it was when
\* the profile was derived.
C18_DerivationReadsAFixedSnapshot ==
    /\ \A t \in Threads :
          threads.proc[t].pc \in Deriving =>
             search_history = threads.proc[t].seen
    /\ \A u \in Users :
          threads.stored[u].taken =>
             /\ user_profiles[u] =
                   update_user_profile(user_profiles, u,
                                       threads.stored[u].history)[u]
             /\ stored_search_history(search_history, user_profiles, u)
                   = threads.stored[u].history

\* the number of events ev among the calls of a request
EventsIn(trace, ev) == Cardinality({k \in DOMAIN trace : trace[k].ev = ev})

\* C21: generating personalized recommendations calls neither the enhancer
\* nor the generator, so a served search request calls the enhancer exactly
\* once and the generator at most once, and a recommendations request calls
\* neither.
C21_PersonalizationUsesCatalogOnly ==
    /\ ServedSearch(last) =>
          /\ EventsIn(last.trace, "enhance") = 1
          /\ EventsIn(last.trace, "generate") <= 1
    /\ last.op = "recommendations" =>
          /\ EventsIn(last.trace, "enhance") = 0
          /\ EventsIn(last.trace, "generate") = 0

\* C22: the fallback recommendations for a non-empty ranked list are the
\* manufacturer line naming the manufacturer of the first ranked result, the
\* category line naming its category and the datasheet line, in this order.
C22_FallbackNamesFirstResult ==
    ( /\ last.op = "generate_recommendations"
      /\ env.generator \in {"raise", "empty"}
      /\ last.results # <<>> )
    => last.response =
          << Line("Consider other products from",
                  last.results[1].manufacturer, <<>>, <<>>),
             Line("Explore more",
                  last.results[1].category, <<>>, <<>>),
             Line("Check datasheets", <<>>, <<>>, <<>>) >>

\* the answers of the two part routes
PartOps == {"get_part", "find_similar"}

\* C23: a call of get_part or of find_similar leaves the search history and
\* every stored profile as they were, and with them the personalized
\* recommendations every user would be given next.
C23_PartRoutesReadOnly ==
    [][ (last' # last /\ last'.op \in PartOps) =>
           /\ search_history' = search_history
           /\ user_profiles' = user_profiles
           /\ \A u \in Users :
                 get_personalized_recommendations(env', search_history',
                                                  user_profiles', u).recs
                    = get_personalized_recommendations(env, search_history,
                                                       user_profiles, u).recs ]_vars

\* a part route answered with a part while the history holds a record and a
\* user has a stored profile with a favorite category
C23_Witness ==
    /\ last.op \in PartOps
    /\ last.response # <<>>
    /\ search_history # <<>>
    /\ \E u \in Users :
          /\ user_profiles[u] # NoProfile
          /\ user_profiles[u].favorite_categories # <<>>
====
